---- MODULE Spec2Model ----
(***************************************************************************)
(* SQLAgent: the agent control loop of sql_agent.py (process_message and   *)
(* get_completion) over the database layer of sql_paraser.py (list_tables  *)
(* and run_sql).                                                           *)
(*                                                                         *)
(* Texts are sequences of tokens: a token is a blank (" "), a statement    *)
(* separator (";") or a word.  Object names of the catalog are sequences   *)
(* of characters, so that the LIKE filter of list_tables is computed.      *)
(* A Python exception that leaves a function is the record field           *)
(* exc /= "none" of the function's outcome; one that leaves                *)
(* process_message ends the run in pc = "raised".                          *)
(***************************************************************************)
EXTENDS Integers, Sequences, FiniteSets, TLC

VARIABLES
    db,          \* the database file at db_path: [file, catalog, rows]
    pc,          \* position of the process_message generator
    exc,         \* the exception that left process_message ("none" when none)
    messages,    \* the conversation handed to get_completion
    events,      \* the strings yielded so far
    step,        \* the step counter of the while loop
    attempt,     \* the loop variable of get_completion's for loop
    response_text, \* the value get_completion returned to the current step
    calls,       \* counters: get_completion calls, provider attempts, run_sql calls
    lastCall,    \* the outcomes of the attempts of the current get_completion call
    lastSql,     \* the last call of run_sql: its arguments and what it left
    lastTables,  \* the last call of list_tables: its argument and what it left
    defReply,    \* the provider's usual outcome of an attempt in this run
    devLeft,     \* how many attempts may still differ from the usual outcome
    suspended    \* the frame of the other run on the same agent, when there is one

vars == <<db, pc, exc, messages, events, step, attempt, response_text, calls,
          lastCall, lastSql, lastTables, defReply, devLeft, suspended>>

----------------------------------------------------------------------------
(* Program constants *)

max_retries_more == 3 + 1
max_retries == 3
max_steps_short == 10 - 1
max_steps == 10
MAX_PREVIEW_ROWS_more == 10 + 1
MAX_PREVIEW_ROWS == 10

(* Bounds of the model *)

\* the attempts of a run whose outcome differs from the run's usual outcome
MaxDeviations == 1
\* the calls a caller of the database layer makes in a row
MaxDbCalls == 2

----------------------------------------------------------------------------
(* Sequences *)

Last(s) == s[Len(s)]

RECURSIVE SeqRange(_, _)
SeqRange(a, b) == IF a > b THEN <<>> ELSE <<a>> \o SeqRange(a + 1, b)

SelectIdx(s, P(_)) == {i \in 1..Len(s) : P(s[i])}
Count(s, P(_)) == Cardinality(SelectIdx(s, P))

----------------------------------------------------------------------------
(* Characters and object names (sqlite_master.name) *)

UpperChars == <<"A","B","C","D","E","F","G","H","I","J","K","L","M",
                "N","O","P","Q","R","S","T","U","V","W","X","Y","Z">>
LowerChars == <<"a","b","c","d","e","f","g","h","i","j","k","l","m",
                "n","o","p","q","r","s","t","u","v","w","x","y","z">>

LowerChar(c) ==
    IF \E i \in 1..26 : UpperChars[i] = c
    THEN LowerChars[CHOOSE i \in 1..26 : UpperChars[i] = c]
    ELSE c

\* byte order of the characters used in names ('_' sorts before the lower case)
CharOrder == <<"_">> \o LowerChars
CharRank(c) == CHOOSE i \in 1..Len(CharOrder) : CharOrder[i] = c

\* a < b in the BINARY collation
RECURSIVE NameLess(_, _)
NameLess(a, b) ==
    IF b = <<>> THEN FALSE
    ELSE IF a = <<>> THEN TRUE
    ELSE IF Head(a) = Head(b) THEN NameLess(Tail(a), Tail(b))
    ELSE CharRank(Head(a)) < CharRank(Head(b))

\* name LIKE 'sqlite_%': LIKE ignores ASCII case, '_' matches any one
\* character and '%' any run of characters
SqlitePrefix == <<"s","q","l","i","t","e">>
LikeSqlite_(name) ==
    /\ Len(name) >= 7
    /\ \A i \in 1..6 : LowerChar(name[i]) = SqlitePrefix[i]

Name_t == <<"t">>
Name_v == <<"v">>
Name_idx == <<"i","x">>
Name_sqlite_sequence ==
    <<"s","q","l","i","t","e","_","s","e","q","u","e","n","c","e">>
Name_sqlitedata == <<"s","q","l","i","t","e","d","a","t","a">>

Obj(name, type) == [name |-> name, type |-> type]

----------------------------------------------------------------------------
(* The database file at db_path.                                            *)
(*   file    : "missing" | "database" | "garbage" (a file that is not a    *)
(*             database) | "directory" (a path sqlite cannot open)         *)
(*   catalog : the objects of sqlite_master                                *)
(*   rows    : the primary keys of the rows of table t, in rowid order     *)

Db(file, catalog, rows) == [file |-> file, catalog |-> catalog, rows |-> rows]

Table_t == Obj(Name_t, "table")

\* os.path.exists(db_path)
PathExists(d) == d.file /= "missing"

\* sqlite3.connect(db_path): the exception it raises, "none" when it connects
\* (a file that is not a database is only read by the first statement)
Connect(d) == IF d.file = "directory" THEN "OperationalError" ELSE "none"

\* the engine's message for a file it cannot use
FileFault(d) ==
    IF d.file = "garbage" THEN "file is not a database" ELSE "none"

----------------------------------------------------------------------------
(* list_tables *)

\* ORDER BY type, name: "table" sorts before "view", names in byte order
ObjLess(a, b) ==
    \/ a.type = "table" /\ b.type = "view"
    \/ a.type = b.type /\ NameLess(a.name, b.name)

RECURSIVE OrderBy(_)
OrderBy(S) ==
    IF S = {} THEN <<>>
    ELSE LET m == CHOOSE x \in S : \A y \in S \ {x} : ObjLess(x, y)
         IN  <<m>> \o OrderBy(S \ {m})

\* WHERE type IN ('table','view') AND name NOT LIKE 'sqlite_%'
CatalogFilter(o) == o.type \in {"table", "view"} /\ ~LikeSqlite_(o.name)

CatalogQuery(d) == OrderBy({o \in d.catalog : CatalogFilter(o)})

\* the value list_tables returns: {} (an empty dict) or the list of entries
EmptyDict == [kind |-> "dict", items |-> <<>>]
TableList(rows) ==
    [kind |-> "list",
     items |-> [i \in 1..Len(rows) |-> [table_name |-> rows[i].name]]]

\* list_tables(db_path): [exc, value, opened, closed]
list_tables(d) ==
    IF ~PathExists(d)
    THEN [exc |-> "none", value |-> EmptyDict, opened |-> 0, closed |-> 0]
    ELSE IF Connect(d) /= "none"
    THEN [exc |-> Connect(d), value |-> EmptyDict, opened |-> 0, closed |-> 0]
    ELSE IF FileFault(d) /= "none"
    THEN [exc |-> "DatabaseError", value |-> EmptyDict, opened |-> 1, closed |-> 1]
    ELSE IF CatalogQuery(d) = <<>>
    THEN [exc |-> "none", value |-> EmptyDict, opened |-> 1, closed |-> 1]
    ELSE [exc |-> "none", value |-> TableList(CatalogQuery(d)),
          opened |-> 1, closed |-> 1]

\* SQLAgent.get_schema_context: the schema text, one chunk per entry
get_schema_context(d) ==
    LET tables == list_tables(d)
    IN  [exc |-> tables.exc,
         text |-> IF tables.exc = "none" /\ tables.value.kind = "list"
                  THEN [i \in 1..Len(tables.value.items) |->
                           tables.value.items[i].table_name]
                  ELSE <<>>]

----------------------------------------------------------------------------
(* Statement texts: sequences of tokens *)

IsBlank(t) == t = " "

RECURSIVE LStrip(_)
LStrip(s) == IF s /= <<>> /\ IsBlank(Head(s)) THEN LStrip(Tail(s)) ELSE s

RECURSIVE RStrip(_)
RStrip(s) ==
    IF s /= <<>> /\ IsBlank(Last(s)) THEN RStrip(SubSeq(s, 1, Len(s) - 1)) ELSE s

\* str.strip()
StripNothing(s) == s
Strip(s) == RStrip(LStrip(s))

\* sql.split(None, 1)[0] of a stripped, non-empty text: the tokens before
\* the first blank
RECURSIVE FirstWord(_)
FirstWord(s) ==
    IF s = <<>> \/ IsBlank(Head(s)) THEN <<>>
    ELSE <<Head(s)>> \o FirstWord(Tail(s))

\* str.lower() of one token
LowerToken(t) ==
    CASE t \in {"SELECT", "Select"} -> "select"
      [] t = "FROM" -> "from"
      [] t = "INSERT" -> "insert"
      [] t = "INTO" -> "into"
      [] t = "VALUES" -> "values"
      [] t = "DEFAULT" -> "default"
      [] t = "DELETE" -> "delete"
      [] t = "WITH" -> "with"
      [] OTHER -> t

Lower(s) == [i \in 1..Len(s) |-> LowerToken(s[i])]

\* ";" in sql
HasSeparatorNever(s) == FALSE
HasSeparator(s) == \E i \in 1..Len(s) : s[i] = ";"

----------------------------------------------------------------------------
(* The engine (sqlite3, outside the repository): what one statement does   *)
(* to the database.  A statement is the list of its non-blank tokens, in   *)
(* lower case, since SQL keywords and names ignore case.                   *)

NonBlank(s) == SelectSeq(s, LAMBDA t : ~IsBlank(t))

\* the statements of a text, split at ";" (empty statements dropped)
RECURSIVE SplitStatements(_, _)
SplitStatements(s, cur) ==
    IF s = <<>> THEN (IF cur = <<>> THEN <<>> ELSE <<cur>>)
    ELSE IF Head(s) = ";"
         THEN (IF cur = <<>> THEN <<>> ELSE <<cur>>) \o SplitStatements(Tail(s), <<>>)
         ELSE SplitStatements(Tail(s), Append(cur, Head(s)))

StatementsOf(text) == SplitStatements(Lower(NonBlank(text)), <<>>)

MaxKey(rows) ==
    IF rows = <<>> THEN 0
    ELSE CHOOSE k \in {rows[i] : i \in 1..Len(rows)} :
             \A j \in 1..Len(rows) : rows[j] <= k

StmtOk(d, rows, cols, rowcount, lastrowid) ==
    [err |-> "none", class |-> "none", db |-> d, rows |-> rows, columns |-> cols,
     rowcount |-> rowcount, lastrowid |-> lastrowid]
StmtErr(d, class, msg) ==
    [err |-> msg, class |-> class, db |-> d, rows |-> <<>>, columns |-> <<>>,
     rowcount |-> -1, lastrowid |-> 0]

HasTable_t(d) == Table_t \in d.catalog

\* one statement w on database d; the rows of a query are tuples of values,
\* one value per column of cursor.description
ExecStatement(d, w) ==
    IF w = <<"select", "*", "from", "t">> \/ w = <<"select", "*", "from", "nosuch">>
       \/ w = <<"with", "x", "select", "*", "from", "t">>
    THEN IF FileFault(d) /= "none" THEN StmtErr(d, "DatabaseError", FileFault(d))
         ELSE IF Last(w) = "t" /\ HasTable_t(d)
         THEN StmtOk(d, [i \in 1..Len(d.rows) |-> <<d.rows[i]>>], <<"k">>, -1, 0)
         ELSE StmtErr(d, "OperationalError", "no such table")
    ELSE IF w = <<"select", "k", ",", "k", "from", "t">>
    THEN IF FileFault(d) /= "none" THEN StmtErr(d, "DatabaseError", FileFault(d))
         ELSE IF HasTable_t(d)
         THEN StmtOk(d, [i \in 1..Len(d.rows) |-> <<d.rows[i], d.rows[i]>>],
                     <<"k", "k">>, -1, 0)
         ELSE StmtErr(d, "OperationalError", "no such table")
    ELSE IF w = <<"insert", "into", "t", "default", "values">>
    THEN IF FileFault(d) /= "none" THEN StmtErr(d, "DatabaseError", FileFault(d))
         ELSE IF ~HasTable_t(d) THEN StmtErr(d, "OperationalError", "no such table")
         ELSE StmtOk([d EXCEPT !.rows = Append(@, MaxKey(@) + 1)], <<>>, <<>>,
                     1, MaxKey(d.rows) + 1)
    ELSE IF w = <<"insert", "into", "t", "values", "1">>
    THEN IF FileFault(d) /= "none" THEN StmtErr(d, "DatabaseError", FileFault(d))
         ELSE IF ~HasTable_t(d) THEN StmtErr(d, "OperationalError", "no such table")
         ELSE IF \E i \in 1..Len(d.rows) : d.rows[i] = 1
         THEN StmtErr(d, "IntegrityError", "UNIQUE constraint failed")
         ELSE StmtOk([d EXCEPT !.rows = <<1>> \o @], <<>>, <<>>, 1, 1)
    ELSE IF w = <<"delete", "from", "t">>
    THEN IF FileFault(d) /= "none" THEN StmtErr(d, "DatabaseError", FileFault(d))
         ELSE IF ~HasTable_t(d) THEN StmtErr(d, "OperationalError", "no such table")
         ELSE StmtOk([d EXCEPT !.rows = <<>>], <<>>, <<>>, Len(d.rows), 0)
    ELSE IF w = <<"drop", "table", "t">>
    THEN IF FileFault(d) /= "none" THEN StmtErr(d, "DatabaseError", FileFault(d))
         ELSE IF ~HasTable_t(d) THEN StmtErr(d, "OperationalError", "no such table")
         ELSE StmtOk([d EXCEPT !.catalog = @ \ {Table_t}, !.rows = <<>>],
                     <<>>, <<>>, -1, 0)
    ELSE StmtErr(d, "OperationalError", "syntax error")

\* cur.execute(sql): one statement; a text of several statements is refused
ExecuteOne(d, st) ==
    IF Len(st) = 0 THEN StmtOk(d, <<>>, <<>>, -1, 0)
    ELSE IF Len(st) > 1
    THEN StmtErr(d, "ProgrammingError",
                 "You can only execute one statement at a time.")
    ELSE ExecStatement(d, st[1])

CursorExecute(d, text) ==
    CHOOSE r \in {ExecuteOne(d, st) : st \in {StatementsOf(text)}} : TRUE

\* cur.executescript(sql): the statements run in order, each one committed
\* as it ends; the first failure stops the script and keeps what ran before
RECURSIVE RunScript(_, _)
RunScript(d, st) ==
    IF st = <<>> THEN StmtOk(d, <<>>, <<>>, -1, 0)
    ELSE LET r == ExecStatement(d, Head(st))
         IN  IF r.err /= "none" THEN r ELSE RunScript(r.db, Tail(st))

CursorExecuteScript(d, text) == RunScript(d, StatementsOf(text))

\* the classes "except sqlite3.Error" catches
IsSqlite3Error(class) ==
    class \in {"DatabaseError", "OperationalError", "IntegrityError", "ProgrammingError"}

----------------------------------------------------------------------------
(* run_sql *)

\* the values the "sql" field of a decision can hold
SqlNone == [py |-> "none", text |-> <<>>]
SqlInt == [py |-> "int", text |-> <<>>]
SqlStr(text) == [py |-> "str", text |-> text]

\* the dicts run_sql returns; keys is the set of keys the dict holds
ResError(msg) ==
    [status |-> "error", error |-> msg, keys |-> {"status", "error"},
     columns |-> <<>>, rows |-> <<>>, rows_affected |-> 0, lastrowid |-> 0]
ResSelect(cols, rows) ==
    [status |-> "ok", error |-> "none", keys |-> {"status", "columns", "rows"},
     columns |-> cols, rows |-> rows, rows_affected |-> 0, lastrowid |-> 0]
ResScript(rowcount) ==
    [status |-> "ok", error |-> "none", keys |-> {"status", "rows_affected"},
     columns |-> <<>>, rows |-> <<>>, rows_affected |-> rowcount, lastrowid |-> 0]
ResStatement(rowcount, lastrowid) ==
    [status |-> "ok", error |-> "none",
     keys |-> {"status", "rows_affected", "lastrowid"},
     columns |-> <<>>, rows |-> <<>>, rows_affected |-> rowcount,
     lastrowid |-> lastrowid]
NoResult ==
    [status |-> "none", error |-> "none", keys |-> {},
     columns |-> <<>>, rows |-> <<>>, rows_affected |-> 0, lastrowid |-> 0]

\* what a call of run_sql leaves: the exception that left it ("none" when it
\* returned), the dict returned, the database afterwards, and how many
\* connections it opened, closed and committed
SqlReturn(result, d, commits) ==
    [exc |-> "none", result |-> result, db |-> d,
     opened |-> 1, closed |-> 1, commits |-> commits]
SqlRaiseWithoutClose(class, d, opened) ==
    [exc |-> class, result |-> NoResult, db |-> d,
     opened |-> opened, closed |-> 0, commits |-> 0]
SqlRaise(class, d, opened) ==
    [exc |-> class, result |-> NoResult, db |-> d,
     opened |-> opened, closed |-> opened, commits |-> 0]

\* except sqlite3.Error as e: an engine fault r becomes an error dict, any
\* other exception leaves run_sql (the finally clause closes the connection)
ExceptOperationalError(d, r) ==
    IF r.class = "OperationalError"
    THEN SqlReturn(ResError(r.err), d, 0)
    ELSE SqlRaise(r.class, d, 1)
ExceptSqlite3Error(d, r) ==
    IF IsSqlite3Error(r.class)
    THEN SqlReturn(ResError(r.err), d, 0)
    ELSE SqlRaise(r.class, d, 1)

\* dict(r) of a sqlite3.Row r: a mapping from the column names to values,
\* in which a name that comes twice keeps one entry, with the later value
RowDict(cols, vals) ==
    [c \in {cols[i] : i \in 1..Len(cols)} |->
        vals[CHOOSE i \in 1..Len(cols) :
                 cols[i] = c /\ \A j \in 1..Len(cols) : cols[j] = c => j <= i]]

\* [dict(r) for r in cur.fetchall()]
FetchAll(cols, rows) == [i \in 1..Len(rows) |-> RowDict(cols, rows[i])]

\* lines 90-91: first_word == "select"
IsSelectExact(sql) == FirstWord(sql) = <<"select">>
IsSelect(sql) == Lower(FirstWord(sql)) = <<"select">>

\* lines 92-95: the rows of a query, or the engine's fault r
SelectPath(d, r) ==
    IF r.err /= "none" THEN ExceptSqlite3Error(d, r)
    ELSE SqlReturn(ResSelect(r.columns, FetchAll(r.columns, r.rows)), d, 0)

\* lines 98-100: executescript and commit
ScriptPath(r) ==
    IF r.err /= "none" THEN ExceptSqlite3Error(r.db, r)
    ELSE SqlReturn(ResScript(r.rowcount), r.db, 1)

\* lines 102-104: execute and commit
StatementPath(d, r) ==
    IF r.err /= "none" THEN ExceptSqlite3Error(d, r)
    ELSE SqlReturn(ResStatement(r.rowcount, r.lastrowid), r.db, 1)

\* the body of the try block, for a text sql that is not empty
RunStatement(d, sql) ==
    IF IsSelect(sql)
    THEN CHOOSE out \in {SelectPath(d, r) : r \in {CursorExecute(d, sql)}} : TRUE
    ELSE IF HasSeparator(sql)
    THEN CHOOSE out \in {ScriptPath(r) : r \in {CursorExecuteScript(d, sql)}} : TRUE
    ELSE CHOOSE out \in {StatementPath(d, r) : r \in {CursorExecute(d, sql)}} : TRUE

\* run_sql(db_path, sql_query)
run_sql(d, sql_query) ==
    IF ~PathExists(d)
    THEN [exc |-> "none", result |-> ResError("Database not found"), db |-> d,
          opened |-> 0, closed |-> 0, commits |-> 0]
    ELSE IF Connect(d) /= "none" THEN SqlRaise(Connect(d), d, 0)
    ELSE IF sql_query.py = "int" THEN SqlRaise("AttributeError", d, 1)
    ELSE LET sql == Strip(sql_query.text)
         IN  IF sql = <<>> THEN SqlReturn(ResError("Empty SQL query"), d, 0)
             ELSE RunStatement(d, sql)

----------------------------------------------------------------------------
(* The provider: what one call of client.chat.completions.create gives.    *)
(* A message content is None or a text; a text is told by what json.loads  *)
(* makes of it.  Missing is the value dict.get gives for an absent key.    *)

Missing == "<missing>"

Content(py, json, raw, type, sql, thought, content) ==
    [py |-> py, json |-> json, raw |-> raw, type |-> type, sql |-> sql,
     thought |-> thought, content |-> content]

\* message.content is None
ContentNone == Content("none", "none", "", Missing, SqlNone, Missing, Missing)
\* a text that is not JSON ("" is the empty string)
ContentInvalid(raw) ==
    Content("str", "invalid", raw, Missing, SqlNone, Missing, Missing)
\* a JSON text that is not an object: json is "array", "number", "string", "null"
ContentScalar(json) ==
    Content("str", json, "json", Missing, SqlNone, Missing, Missing)
\* a JSON object with the keys whose value is not Missing
ContentObject(type, sql, thought, content) ==
    Content("str", "object", "json", type, sql, thought, content)

EmptyString == ContentInvalid("")

\* the outcome of one attempt: the content of the message returned, or the
\* text str(e) of the exception raised
Returned(content) == [ok |-> TRUE, error |-> <<>>, content |-> content]
Failed(error) == [ok |-> FALSE, error |-> error, content |-> EmptyString]

\* "json_validate_failed" in str(e).lower() or "400" in str(e)
IsFormatFailure(error) ==
    \/ \E i \in 1..Len(error) : LowerToken(error[i]) = "json_validate_failed"
    \/ \E i \in 1..Len(error) : error[i] = "400"

\* json.loads(response_text): the exception it raises, "none" when it parses
JsonLoadsOfAnyText(text) == IF text.py = "none" THEN "TypeError" ELSE "none"
JsonLoads(text) ==
    IF text.py = "none" THEN "TypeError"
    ELSE IF text.json = "invalid" THEN "JSONDecodeError"
    ELSE "none"

\* response_data.get: a parsed value that is not a dict has no get
HasGet(text) == text.json = "object"

----------------------------------------------------------------------------
(* Events (the strings process_message yields) and messages *)

Event(tag, text, n, sql) == [tag |-> tag, text |-> text, n |-> n, sql |-> sql]

EvSchemaError == Event("Error: Could not retrieve schema.", "", 0, SqlNone)
EvStepLimit ==
    Event("Error: Agent reached maximum steps without a final answer.", "", 0, SqlNone)
EvParseFailure(raw) == Event("Debug: Failed to parse JSON response", raw, 0, SqlNone)
EvThought(t) == Event("Thought", t, 0, SqlNone)
EvExecuting(sql) == Event("Executing SQL", "", 0, sql)
EvSqlResult(n) == Event("SQL Result", "", n, SqlNone)
EvSqlError(msg) == Event("SQL Error", msg, 0, SqlNone)
EvFinalAnswer(content) == Event("Final Answer", content, 0, SqlNone)
EvUnknownType(type) == Event("Debug: Unknown response type", type, 0, SqlNone)

Message(role, kind, text, schema, n, rows, error) ==
    [role |-> role, kind |-> kind, text |-> text, schema |-> schema,
     n |-> n, rows |-> rows, error |-> error]

MsgSystemPromptWithoutSchema(schema) ==
    Message("system", "system_prompt", ContentNone, <<>>, 0, <<>>, "")
MsgSystemPrompt(schema) ==
    Message("system", "system_prompt", ContentNone, schema, 0, <<>>, "")
\* the run that is executing: the one that is not suspended
OtherRun(id) == IF id = 1 THEN 2 ELSE 1
CurrentRun == OtherRun(suspended.id)
\* the user's input to run id (field n tells the inputs of two runs apart)
MsgUserInputOf(id) == Message("user", "user_input", ContentNone, <<>>, id, <<>>, "")
MsgUserInput == MsgUserInputOf(CurrentRun)
MsgReminder == Message("system", "reminder", ContentNone, <<>>, 0, <<>>, "")
MsgInvalidJsonAsSystem ==
    Message("system", "invalid_json", ContentNone, <<>>, 0, <<>>, "")
MsgInvalidJson == Message("user", "invalid_json", ContentNone, <<>>, 0, <<>>, "")
MsgUnknownType == Message("user", "unknown_type", ContentNone, <<>>, 0, <<>>, "")
\* the raw completion text of the step
MsgAssistantWithoutText(text) ==
    Message("assistant", "decision", ContentNone, <<>>, 0, <<>>, "")
MsgAssistant(text) == Message("assistant", "decision", text, <<>>, 0, <<>>, "")
\* "Query returned n rows:" followed by all the rows
MsgResult(n, rows) == Message("user", "result", ContentNone, <<>>, n, rows, "")
\* "Query returned n rows. This is too many to show. Here are the first ..."
MsgPreview(n, rows) == Message("user", "preview", ContentNone, <<>>, n, rows, "")
\* "SQL Error: <message>"
MsgSqlErrorWithoutText(msg) ==
    Message("user", "sql_error", ContentNone, <<>>, 0, <<>>, "")
MsgSqlError(msg) == Message("user", "sql_error", ContentNone, <<>>, 0, <<>>, msg)

----------------------------------------------------------------------------
(* The inputs of a run: the database at db_path and the provider's answers *)

Q_select == <<"SELECT", " ", "*", " ", "FROM", " ", "t">>
Q_nosuch == <<"SELECT", " ", "*", " ", "FROM", " ", "nosuch">>

R_garbage == ContentInvalid("Sure!")
R_array == ContentScalar("array")
R_number == ContentScalar("number")
R_string == ContentScalar("string")
R_null == ContentScalar("null")
R_select == ContentObject("sql", SqlStr(Q_select), "t", Missing)
R_nosuch == ContentObject("sql", SqlStr(Q_nosuch), Missing, Missing)
R_sqlint == ContentObject("sql", SqlInt, Missing, Missing)
R_sqlmissing == ContentObject("sql", SqlNone, "", Missing)
R_answer == ContentObject("answer", SqlNone, "t", "X")
R_chart == ContentObject("chart", SqlNone, Missing, Missing)

E_format == <<"Error code:", "400", "json_validate_failed">>
E_network == <<"Connection error.">>

Contents ==
    {ContentNone, EmptyString, R_garbage, R_array, R_number, R_string, R_null,
     R_select, R_nosuch, R_sqlint, R_sqlmissing, R_answer, R_chart}

Outcomes == {Returned(c) : c \in Contents} \cup {Failed(E_format), Failed(E_network)}

\* the outcomes a provider can give at every attempt of a run that goes on
UsualOutcomes ==
    {Failed(E_format), Failed(E_network), Returned(R_garbage),
     Returned(R_select), Returned(R_nosuch), Returned(R_chart)}

Catalog_small == {Table_t}
Catalog_large ==
    {Table_t, Obj(Name_v, "view"), Obj(Name_idx, "index"),
     Obj(Name_sqlite_sequence, "table")}

DbSamples ==
    {Db("missing", {}, <<>>), Db("directory", {}, <<>>), Db("garbage", {}, <<>>),
     Db("database", {}, <<>>),
     Db("database", {Obj(Name_sqlitedata, "table")}, <<>>),
     Db("database", Catalog_small, SeqRange(1, 2)),
     Db("database", Catalog_large, SeqRange(1, MAX_PREVIEW_ROWS + 1))}

----------------------------------------------------------------------------
(* SQLAgent.process_message *)

NoCalls == [completion |-> 0, provider |-> 0, sql |-> 0, tables |-> 0]

\* the locals of one call of process_message (and of the get_completion it
\* is in), the events it has yielded and the provider's usual reply to it
Frame(id, p, e, msgs, evs, st, att, text, call, reply) ==
    [id |-> id, pc |-> p, exc |-> e, messages |-> msgs, events |-> evs,
     step |-> st, attempt |-> att, response_text |-> text, lastCall |-> call,
     defReply |-> reply]

\* no second run
NoFrame ==
    Frame(2, "absent", "none", <<>>, <<>>, 0, 0, EmptyString, <<>>, Failed(E_network))

\* a call of run_sql(before, query) that left out, and none
SqlCall(before, query, out) ==
    [called |-> TRUE, before |-> before, query |-> query, out |-> out]
NoSqlCall ==
    [called |-> FALSE, before |-> Db("missing", {}, <<>>), query |-> SqlNone,
     out |-> SqlRaise("none", Db("missing", {}, <<>>), 0)]

\* a call of list_tables(before) that left out, and none
TablesCall(before, out) == [called |-> TRUE, before |-> before, out |-> out]
NoTablesCall ==
    [called |-> FALSE, before |-> Db("missing", {}, <<>>),
     out |-> [exc |-> "none", value |-> EmptyDict, opened |-> 0, closed |-> 0]]

Init ==
    /\ db \in DbSamples
    /\ defReply \in UsualOutcomes
    /\ devLeft = MaxDeviations
    /\ pc = "start"
    /\ exc = "none"
    /\ messages = <<>>
    /\ events = <<>>
    /\ step = 0
    /\ attempt = 0
    /\ response_text = EmptyString
    /\ calls = NoCalls
    /\ lastCall = <<>>
    /\ lastSql = NoSqlCall
    /\ lastTables = NoTablesCall
    /\ suspended = NoFrame

\* line 69: if not schema_context
SchemaUnchecked(text) == FALSE
SchemaUnavailable(text) == text = <<>>

\* an exception leaves process_message
Raise(class) ==
    /\ pc' = "raised"
    /\ exc' = class

\* lines 68-107: the schema is read; without one the run ends at once
GetSchema ==
    /\ pc = "start"
    /\ LET sc == get_schema_context(db)
       IN  IF sc.exc /= "none"
           THEN /\ Raise(sc.exc)
                /\ UNCHANGED <<messages, events>>
           ELSE IF SchemaUnavailable(sc.text)
           THEN /\ events' = Append(events, EvSchemaError)
                /\ pc' = "done"
                /\ UNCHANGED <<messages, exc>>
           ELSE /\ messages' = <<MsgSystemPrompt(sc.text), MsgUserInput>>
                /\ pc' = "while"
                /\ UNCHANGED <<events, exc>>
    /\ lastTables' = TablesCall(db, list_tables(db))
    /\ calls' = [calls EXCEPT !.tables = @ + 1]
    /\ UNCHANGED <<db, step, attempt, response_text, lastCall, lastSql,
                   defReply, devLeft, suspended>>

\* lines 109-112 and 37-43: a step begins and get_completion is called
\* (LoopStepUncounted: the same without line 110)
LoopStepUncounted ==
    /\ pc = "while"
    /\ step < max_steps
    /\ step' = step
    /\ attempt' = 0
    /\ lastCall' = <<>>
    /\ calls' = [calls EXCEPT !.completion = @ + 1]
    /\ pc' = "create"
    /\ UNCHANGED <<db, exc, messages, events, response_text, lastSql, lastTables,
                   defReply, devLeft, suspended>>

LoopStep ==
    /\ pc = "while"
    /\ step < max_steps
    /\ step' = step + 1
    /\ attempt' = 0
    /\ lastCall' = <<>>
    /\ calls' = [calls EXCEPT !.completion = @ + 1]
    /\ pc' = "create"
    /\ UNCHANGED <<db, exc, messages, events, response_text, lastSql, lastTables,
                   defReply, devLeft, suspended>>

\* lines 109 and 166-167: the loop ends with the budget used up
LoopExit ==
    /\ pc = "while"
    /\ ~(step < max_steps)
    /\ events' = IF step >= max_steps THEN Append(events, EvStepLimit) ELSE events
    /\ pc' = "done"
    /\ UNCHANGED <<db, exc, messages, step, attempt, response_text, calls,
                   lastCall, lastSql, lastTables, defReply, devLeft, suspended>>

\* the provider gives its usual outcome, or another one while it may
Provider(o) ==
    \/ /\ o = defReply
       /\ devLeft' = devLeft
    \/ /\ o /= defReply
       /\ devLeft > 0
       /\ devLeft' = devLeft - 1

\* lines 45-50: the attempt succeeds and get_completion returns the content
AttemptReturns ==
    /\ pc = "create"
    /\ \E o \in Outcomes \cup {defReply} :
         /\ o.ok
         /\ Provider(o)
         /\ response_text' = o.content
         /\ lastCall' = Append(lastCall, o)
    /\ calls' = [calls EXCEPT !.provider = @ + 1]
    /\ pc' = "parse"
    /\ UNCHANGED <<db, exc, messages, events, step, attempt, lastSql, lastTables,
                   defReply, suspended>>

\* line 53-54: the failure is one the except block retries with a reminder
RetriedOnAnyAttempt(error, att) == IsFormatFailure(error)
Retried(error, att) == IsFormatFailure(error) /\ att < max_retries - 1

\* lines 56-57: the reminder is appended unless a system message is last
WithReminderAlways(msgs) == Append(msgs, MsgReminder)
WithReminder(msgs) ==
    IF Last(msgs).role /= "system" THEN Append(msgs, MsgReminder) ELSE msgs

\* lines 59-61: a failure that was not retried ends the call on the last attempt
GivesUpAtOnce(error, att) == ~Retried(error, att)
GivesUp(error, att) == ~Retried(error, att) /\ att = max_retries - 1

\* lines 51-62: the attempt raises; the call returns "" when the failure is
\* given up or the for loop has no attempt left
AttemptFails ==
    /\ pc = "create"
    /\ \E o \in Outcomes \cup {defReply} :
         /\ ~o.ok
         /\ Provider(o)
         /\ lastCall' = Append(lastCall, o)
         /\ messages' = IF Retried(o.error, attempt)
                        THEN WithReminder(messages) ELSE messages
         /\ IF GivesUp(o.error, attempt) \/ ~(attempt + 1 < max_retries)
            THEN /\ response_text' = EmptyString
                 /\ pc' = "parse"
                 /\ attempt' = attempt
            ELSE /\ attempt' = attempt + 1
                 /\ pc' = "create"
                 /\ UNCHANGED response_text
    /\ calls' = [calls EXCEPT !.provider = @ + 1]
    /\ UNCHANGED <<db, exc, events, step, lastSql, lastTables, defReply, suspended>>


\* what every action of the rest of a step leaves alone
StepFrame ==
    UNCHANGED <<step, attempt, response_text, lastCall, lastTables, defReply, devLeft, suspended>>

\* lines 114-119: the text does not parse; a repair message is appended
ParseFailure ==
    /\ pc = "parse"
    /\ JsonLoads(response_text) = "JSONDecodeError"
    /\ events' = Append(events, EvParseFailure(response_text.raw))
    /\ messages' = Append(messages, MsgInvalidJson)
    /\ pc' = "while"
    /\ UNCHANGED <<db, exc, calls, lastSql>>
    /\ StepFrame

\* lines 115 and 121: json.loads raises something else than JSONDecodeError,
\* or the parsed value has no get
ParseRaises ==
    /\ pc = "parse"
    /\ \/ /\ JsonLoads(response_text) = "TypeError"
          /\ Raise("TypeError")
       \/ /\ JsonLoads(response_text) = "none"
          /\ ~HasGet(response_text)
          /\ Raise("AttributeError")
    /\ UNCHANGED <<db, messages, events, calls, lastSql>>
    /\ StepFrame

\* the text parsed to an object whose "type" is type
DecidedWhateverType(type) ==
    /\ pc = "parse"
    /\ JsonLoads(response_text) = "none"
    /\ HasGet(response_text)

Decided(type) ==
    /\ pc = "parse"
    /\ JsonLoads(response_text) = "none"
    /\ HasGet(response_text)
    /\ response_text.type = type

\* lines 122-125: if thought: yield the thought
WithThought(evs, thought) ==
    IF thought \notin {Missing, ""} THEN Append(evs, EvThought(thought)) ELSE evs

\* result.get("rows", [])
ResultRowsOrAffected(result) ==
    IF "rows" \in result.keys THEN result.rows ELSE <<result.rows_affected>>
ResultRows(result) == IF "rows" \in result.keys THEN result.rows ELSE <<>>

\* lines 134-145: the feedback message for the rows of an ok result
Feedback(rows) ==
    IF Len(rows) > MAX_PREVIEW_ROWS
    THEN MsgPreview(Len(rows), SubSeq(rows, 1, MAX_PREVIEW_ROWS))
    ELSE MsgResult(Len(rows), rows)

\* lines 127-155: a "sql" decision runs the statement and feeds the result back
DecisionSql ==
    /\ Decided("sql")
    /\ LET sql_query == response_text.sql
           evs == Append(WithThought(events, response_text.thought),
                         EvExecuting(sql_query))
           r == run_sql(db, sql_query)
       IN  /\ calls' = [calls EXCEPT !.sql = @ + 1]
           /\ lastSql' = SqlCall(db, sql_query, r)
           /\ db' = r.db
           /\ IF r.exc /= "none"
              THEN /\ Raise(r.exc)
                   /\ events' = evs
                   /\ UNCHANGED messages
              ELSE IF r.result.status = "ok"
              THEN /\ events' = Append(evs, EvSqlResult(Len(ResultRows(r.result))))
                   /\ messages' = messages \o
                        <<MsgAssistant(response_text), Feedback(ResultRows(r.result))>>
                   /\ pc' = "while"
                   /\ UNCHANGED exc
              ELSE /\ events' = Append(evs, EvSqlError(r.result.error))
                   /\ messages' = messages \o
                        <<MsgAssistant(response_text), MsgSqlError(r.result.error)>>
                   /\ pc' = "while"
                   /\ UNCHANGED exc
    /\ StepFrame

\* lines 157-160: an "answer" decision ends the run
DecisionAnswerNoReturn ==
    /\ Decided("answer")
    /\ events' = Append(WithThought(events, response_text.thought),
                        EvFinalAnswer(response_text.content))
    /\ pc' = "while"
    /\ UNCHANGED <<db, exc, messages, calls, lastSql>>
    /\ StepFrame
DecisionAnswer ==
    /\ Decided("answer")
    /\ events' = Append(WithThought(events, response_text.thought),
                        EvFinalAnswer(response_text.content))
    /\ pc' = "done"
    /\ UNCHANGED <<db, exc, messages, calls, lastSql>>
    /\ StepFrame

\* lines 162-164: any other type gets a repair message
DecisionUnknown ==
    /\ pc = "parse"
    /\ JsonLoads(response_text) = "none"
    /\ HasGet(response_text)
    /\ response_text.type \notin {"sql", "answer"}
    /\ events' = Append(WithThought(events, response_text.thought),
                        EvUnknownType(response_text.type))
    /\ messages' = Append(messages, MsgUnknownType)
    /\ pc' = "while"
    /\ UNCHANGED <<db, exc, calls, lastSql>>
    /\ StepFrame

Next ==
    \/ GetSchema
    \/ LoopStep
    \/ LoopExit
    \/ AttemptReturns
    \/ AttemptFails
    \/ ParseFailure
    \/ ParseRaises
    \/ DecisionSql
    \/ DecisionAnswer
    \/ DecisionUnknown

Spec == Init /\ [][Next]_vars

\* the generator is driven to its end: a step that can be taken is taken
\* (every provider call and every SQL call returns)
SpecFair == Init /\ [][Next]_vars /\ WF_vars(Next)

----------------------------------------------------------------------------
(* The database layer called on its own (sql_paraser.py run as a script):  *)
(* list_tables and run_sql applied to a database and to statement texts.   *)

Q_lower == <<" ", "select", " ", "*", " ", "from", " ", "t", " ">>
Q_select_end == <<"Select", " ", "*", " ", "FROM", " ", "t", ";">>
Q_two_selects ==
    <<"SELECT", " ", "*", " ", "FROM", " ", "t", ";", " ",
      "SELECT", " ", "*", " ", "FROM", " ", "t">>
Q_select_syntax == <<"SELECT", " ", "FROM">>
Q_glued == <<"SELECT", "*", "FROM", " ", "t">>
Q_with == <<"WITH", " ", "x", " ", "SELECT", " ", "*", " ", "FROM", " ", "t">>
Q_insert == <<"INSERT", " ", "INTO", " ", "t", " ", "DEFAULT", " ", "VALUES">>
Q_insert_1 == <<"insert", " ", "into", " ", "t", " ", "values", " ", "1">>
Q_syntax == <<"selekt">>
Q_twice == <<"SELECT", " ", "k", ",", " ", "k", " ", "FROM", " ", "t">>
Q_delete == <<"DELETE", " ", "FROM", " ", "t">>
Q_drop == <<"drop", " ", "table", " ", "t">>
Q_script == Q_insert \o <<";", " ">> \o Q_insert \o <<";">>
Q_script_dup == Q_insert \o <<";">> \o Q_insert_1
Q_script_syntax == Q_insert \o <<";">> \o Q_syntax

SqlInputs ==
    {SqlNone, SqlInt, SqlStr(<<>>), SqlStr(<<" ", " ">>)} \cup
    {SqlStr(q) : q \in
        {Q_select, Q_nosuch, Q_lower, Q_select_end, Q_two_selects, Q_select_syntax,
         Q_twice,
         Q_glued, Q_with, Q_insert, Q_insert_1, Q_syntax, Q_delete, Q_drop,
         Q_script, Q_script_dup, Q_script_syntax}}

\* a catalog with a user table whose name begins with "sqlite" and no "_"
Catalog_named == {Table_t, Obj(Name_sqlitedata, "table"), Obj(Name_v, "view")}

InitDb ==
    /\ db \in DbSamples \cup {Db("database", Catalog_named, SeqRange(1, 1))}
    /\ pc = "db_caller"
    /\ defReply = Failed(E_network)
    /\ devLeft = 0
    /\ exc = "none"
    /\ messages = <<>>
    /\ events = <<>>
    /\ step = 0
    /\ attempt = 0
    /\ response_text = EmptyString
    /\ calls = NoCalls
    /\ lastCall = <<>>
    /\ lastSql = NoSqlCall
    /\ lastTables = NoTablesCall
    /\ suspended = NoFrame

DbFrame ==
    UNCHANGED <<pc, exc, messages, events, step, attempt, response_text,
                lastCall, defReply, devLeft, suspended>>

CallListTables ==
    /\ pc = "db_caller"
    /\ calls.tables + calls.sql < MaxDbCalls
    /\ lastTables' = TablesCall(db, list_tables(db))
    /\ calls' = [calls EXCEPT !.tables = @ + 1]
    /\ UNCHANGED <<db, lastSql>>
    /\ DbFrame

CallRunSql ==
    /\ pc = "db_caller"
    /\ calls.tables + calls.sql < MaxDbCalls
    /\ \E q \in SqlInputs :
         LET r == run_sql(db, q)
         IN  /\ lastSql' = SqlCall(db, q, r)
             /\ db' = r.db
    /\ calls' = [calls EXCEPT !.sql = @ + 1]
    /\ UNCHANGED lastTables
    /\ DbFrame

NextDb == CallListTables \/ CallRunSql

SpecDb == InitDb /\ [][NextDb]_vars

----------------------------------------------------------------------------
(* process_message with a provider that answers every attempt of the run   *)
(* alike, over databases whose table t has few, ten and more than ten rows *)

R_notype == ContentObject(Missing, SqlNone, "t", Missing)
R_sqlempty == ContentObject("sql", SqlStr(<<>>), Missing, Missing)
R_sqlblank == ContentObject("sql", SqlStr(<<" ", " ">>), Missing, Missing)
R_twice == ContentObject("sql", SqlStr(Q_twice), Missing, Missing)
R_with == ContentObject("sql", SqlStr(Q_with), Missing, Missing)
R_insert == ContentObject("sql", SqlStr(Q_insert), Missing, Missing)
R_delete == ContentObject("sql", SqlStr(Q_delete), Missing, Missing)
R_drop == ContentObject("sql", SqlStr(Q_drop), Missing, Missing)
R_script == ContentObject("sql", SqlStr(Q_script), Missing, Missing)
R_syntax == ContentObject("sql", SqlStr(Q_syntax), Missing, Missing)

SteadyOutcomes ==
    Outcomes \cup
    {Returned(c) : c \in {R_notype, R_sqlempty, R_sqlblank, R_twice, R_with,
                          R_insert, R_delete, R_drop, R_script, R_syntax}}

RowCountSamples ==
    {Db("database", Catalog_small, SeqRange(1, n)) :
        n \in {0, 1, MAX_PREVIEW_ROWS - 1, MAX_PREVIEW_ROWS, MAX_PREVIEW_ROWS + 1}}

InitSteady ==
    /\ db \in DbSamples \cup RowCountSamples
    /\ defReply \in SteadyOutcomes
    /\ devLeft = 0
    /\ pc = "start"
    /\ exc = "none"
    /\ messages = <<>>
    /\ events = <<>>
    /\ step = 0
    /\ attempt = 0
    /\ response_text = EmptyString
    /\ calls = NoCalls
    /\ lastCall = <<>>
    /\ lastSql = NoSqlCall
    /\ lastTables = NoTablesCall
    /\ suspended = NoFrame

SpecSteady == InitSteady /\ [][Next]_vars

----------------------------------------------------------------------------
(* Two runs of process_message on the one agent of app.py, interleaved    *)
(* step by step: each is a generator with its own locals (messages, step,     *)
(* response_text, and the attempt of the get_completion it is in); the     *)
(* agent's attributes are never assigned after __init__; the database is   *)
(* shared.  The provider answers each run in its usual way for that run.   *)

SharedOutcomes ==
    {Failed(E_format), Returned(R_garbage), Returned(R_null),
     Returned(R_select), Returned(R_nosuch), Returned(R_chart), Returned(R_answer)}

SharedDbSamples ==
    {Db("database", {Obj(Name_sqlitedata, "table")}, <<>>),
     Db("database", Catalog_small, SeqRange(1, 2))}

\* the frame of the run that is executing
CurrentFrame ==
    Frame(CurrentRun, pc, exc, messages, events, step, attempt, response_text,
          lastCall, defReply)

InitShared ==
    /\ db \in SharedDbSamples
    /\ defReply \in SharedOutcomes
    /\ devLeft = 0
    /\ pc = "start"
    /\ exc = "none"
    /\ messages = <<>>
    /\ events = <<>>
    /\ step = 0
    /\ attempt = 0
    /\ response_text = EmptyString
    /\ calls = NoCalls
    /\ lastCall = <<>>
    /\ lastSql = NoSqlCall
    /\ lastTables = NoTablesCall
    /\ \E reply \in SharedOutcomes :
         suspended = Frame(2, "start", "none", <<>>, <<>>, 0, 0, EmptyString,
                           <<>>, reply)

\* the executing run is suspended and the other run, if not over, resumes
\* with its own locals (SwitchSharingMessages: the same, were the
\* conversation an attribute of the agent: the run that resumes goes on with
\* the one list)
SwitchSharingMessages ==
    /\ pc \in {"start", "while", "done", "raised"}
    /\ suspended.pc \notin {"absent", "done", "raised"}
    /\ suspended' = CurrentFrame
    /\ pc' = suspended.pc
    /\ exc' = suspended.exc
    /\ events' = suspended.events
    /\ step' = suspended.step
    /\ attempt' = suspended.attempt
    /\ response_text' = suspended.response_text
    /\ lastCall' = suspended.lastCall
    /\ defReply' = suspended.defReply
    /\ UNCHANGED <<messages, db, calls, lastSql, lastTables, devLeft>>

Switch ==
    /\ pc \in {"start", "while", "done", "raised"}
    /\ suspended.pc \notin {"absent", "done", "raised"}
    /\ suspended' = CurrentFrame
    /\ pc' = suspended.pc
    /\ exc' = suspended.exc
    /\ messages' = suspended.messages
    /\ events' = suspended.events
    /\ step' = suspended.step
    /\ attempt' = suspended.attempt
    /\ response_text' = suspended.response_text
    /\ lastCall' = suspended.lastCall
    /\ defReply' = suspended.defReply
    /\ UNCHANGED <<db, calls, lastSql, lastTables, devLeft>>

NextShared == Next \/ Switch

SpecShared == InitShared /\ [][NextShared]_vars

----------------------------------------------------------------------------
(* SQLAgent.run: the command-line loop, for one question.  Its while loop  *)
(* (lines 223-282) repeats the loop of process_message with print in the   *)
(* place of yield, so the step, attempt, parse-failure, sql and            *)
(* unknown-type actions are those above and events holds the lines         *)
(* printed.  What differs: the schema check returns from run, an answer    *)
(* leaves the loop with break, the step-limit line is printed by a test    *)
(* after the loop, and an exception is caught and printed.                 *)

EvCliNoSchema == Event("Could not retrieve schema. Exiting.", "", 0, SqlNone)
EvCliAnswer(content) == Event("Agent", content, 0, SqlNone)
EvCliStepLimit ==
    Event("Agent reached maximum steps without a final answer.", "", 0, SqlNone)
EvCliError(class) == Event("An error occurred", class, 0, SqlNone)

CliOutcomes ==
    {Failed(E_network), Returned(R_garbage), Returned(R_select), Returned(R_answer)}

CliDbSamples ==
    {Db("directory", {}, <<>>),
     Db("database", {}, <<>>),
     Db("database", Catalog_small, SeqRange(1, 2))}

InitCli ==
    /\ db \in CliDbSamples
    /\ defReply \in CliOutcomes
    /\ devLeft = MaxDeviations
    /\ pc = "start"
    /\ exc = "none"
    /\ messages = <<>>
    /\ events = <<>>
    /\ step = 0
    /\ attempt = 0
    /\ response_text = EmptyString
    /\ calls = NoCalls
    /\ lastCall = <<>>
    /\ lastSql = NoSqlCall
    /\ lastTables = NoTablesCall
    /\ suspended = NoFrame

\* lines 173-176 and 207-222: the schema is read, outside the try block;
\* without one run returns; with one the question is read and the
\* conversation begins
CliStart ==
    /\ pc = "start"
    /\ LET sc == get_schema_context(db)
       IN  IF sc.exc /= "none"
           THEN /\ pc' = "crashed"
                /\ exc' = sc.exc
                /\ UNCHANGED <<messages, events>>
           ELSE IF SchemaUnavailable(sc.text)
           THEN /\ events' = Append(events, EvCliNoSchema)
                /\ pc' = "returned"
                /\ UNCHANGED <<messages, exc>>
           ELSE /\ messages' = <<MsgSystemPrompt(sc.text), MsgUserInput>>
                /\ pc' = "while"
                /\ UNCHANGED <<events, exc>>
    /\ lastTables' = TablesCall(db, list_tables(db))
    /\ calls' = [calls EXCEPT !.tables = @ + 1]
    /\ UNCHANGED <<db, step, attempt, response_text, lastCall, lastSql,
                   defReply, devLeft, suspended>>

\* line 226: the while condition fails and the loop is left
CliLoopEnds ==
    /\ pc = "while"
    /\ ~(step < max_steps)
    /\ pc' = "after_loop"
    /\ UNCHANGED <<db, exc, messages, events, step, attempt, response_text, calls,
                   lastCall, lastSql, lastTables, defReply, devLeft, suspended>>

\* lines 275-278: the answer is printed and break leaves the loop
CliAnswer ==
    /\ Decided("answer")
    /\ events' = Append(WithThought(events, response_text.thought),
                        EvCliAnswer(response_text.content))
    /\ pc' = "after_loop"
    /\ UNCHANGED <<db, exc, messages, calls, lastSql>>
    /\ StepFrame

\* line 284: if step >= max_steps
StepLimitAfterLoop == step >= max_steps

\* lines 284-285: after the loop, however it was left
CliAfterLoop ==
    /\ pc = "after_loop"
    /\ events' = IF StepLimitAfterLoop THEN Append(events, EvCliStepLimit)
                 ELSE events
    /\ pc' = "asked"
    /\ UNCHANGED <<db, exc, messages, step, attempt, response_text, calls,
                   lastCall, lastSql, lastTables, defReply, devLeft, suspended>>

\* lines 290-291: except Exception prints the error; the question is over
CliExcept ==
    /\ pc = "raised"
    /\ events' = Append(events, EvCliError(exc))
    /\ exc' = "none"
    /\ pc' = "asked"
    /\ UNCHANGED <<db, messages, step, attempt, response_text, calls,
                   lastCall, lastSql, lastTables, defReply, devLeft, suspended>>

NextCli ==
    \/ CliStart
    \/ LoopStep
    \/ CliLoopEnds
    \/ AttemptReturns
    \/ AttemptFails
    \/ ParseFailure
    \/ ParseRaises
    \/ DecisionSql
    \/ CliAnswer
    \/ DecisionUnknown
    \/ CliAfterLoop
    \/ CliExcept

SpecCli == InitCli /\ [][NextCli]_vars

----------------------------------------------------------------------------
(* Properties *)

TagParseFailure == "Debug: Failed to parse JSON response"
TagStepLimit == "Error: Agent reached maximum steps without a final answer."
TagSchemaError == "Error: Could not retrieve schema."
TagFinalAnswer == "Final Answer"
TerminalTags == {TagFinalAnswer, TagStepLimit, TagSchemaError}

CountTag(tag) == Count(events, LAMBDA e : e.tag = tag)
CountTerminal == Count(events, LAMBDA e : e.tag \in TerminalTags)
CountRole(msgs, role) == Count(msgs, LAMBDA m : m.role = role)
CountKind(msgs, kind) == Count(msgs, LAMBDA m : m.kind = kind)

\* every event so far is a parse failure or the step limit
OnlyParseFailures ==
    \A i \in 1..Len(events) : events[i].tag \in {TagParseFailure, TagStepLimit}

\* C1: a run with a schema in which every completion gave text that is not
\* JSON takes exactly 10 steps: 10 get_completion calls, 10 parse-failure
\* events, then the one step-limit event, with which it ends.
C1_MalformedRunTakesTenSteps ==
    (messages /= <<>> /\ OnlyParseFailures) =>
        /\ CountTag(TagParseFailure) <= 10
        /\ calls.completion = step
        /\ (pc = "while" => CountTag(TagParseFailure) = step)
        /\ (pc \in {"create", "parse"} => CountTag(TagParseFailure) = step - 1)
        /\ (CountTag(TagStepLimit) > 0 => pc = "done")
        /\ (pc = "done" =>
              /\ step = 10
              /\ calls.completion = 10
              /\ Len(events) = 11
              /\ \A i \in 1..10 : events[i].tag = TagParseFailure
              /\ events[11] = EvStepLimit)

C1_Witness ==
    /\ pc = "done"
    /\ messages /= <<>>
    /\ OnlyParseFailures
    /\ CountTag(TagParseFailure) = 10
    /\ \E i \in 1..Len(events) : events[i] = EvParseFailure("")
    /\ \E i \in 1..Len(events) : events[i] = EvParseFailure("Sure!")

\* C2: once a step's decision is an answer, 'Final Answer: <content>' is
\* the last event and the run is over: no completion, SQL call, event or
\* message comes after it, at whichever step from 1 to 10 it happens; an
\* answer on the first step ends the run after that one step.
C2_AnswerEndsRun ==
    CountTag(TagFinalAnswer) > 0 =>
        /\ pc = "done"
        /\ exc = "none"
        /\ CountTag(TagFinalAnswer) = 1
        /\ response_text.type = "answer"
        /\ Last(events) = EvFinalAnswer(response_text.content)
        /\ step \in 1..10
        /\ calls.completion = step
        /\ calls.sql <= step - 1
        /\ CountRole(messages, "user") = step
        /\ CountRole(messages, "assistant") = calls.sql
        /\ (step = 1 =>
              /\ events = WithThought(<<>>, response_text.thought)
                            \o <<EvFinalAnswer(response_text.content)>>
              /\ \A i \in 1..Len(messages) : messages[i].role /= "assistant")

C2_Witness ==
    /\ pc = "done"
    /\ Last(events).tag = TagFinalAnswer
    /\ step = 10
    /\ calls.sql = 9

\* names of the engine's own catalog objects begin with "sqlite_"
InternalPrefix == <<"s","q","l","i","t","e","_">>
IsInternalName(name) ==
    /\ Len(name) >= 7
    /\ \A i \in 1..7 : LowerChar(name[i]) = InternalPrefix[i]
UserVisible(d) ==
    {o \in d.catalog : o.type \in {"table", "view"} /\ ~IsInternalName(o.name)}

\* C3: when the database file does not exist, or holds no user-visible
\* table or view, as the run starts, the run emits the one event 'Error:
\* Could not retrieve schema.' and makes no completion call, no provider
\* attempt, no SQL call and no step.
C3_NoSchemaNoSteps ==
    (/\ pc /= "start"
     /\ \/ lastTables.before.file = "missing"
        \/ lastTables.before.file = "database" /\ UserVisible(lastTables.before) = {})
    =>  /\ pc = "done"
        /\ events = <<EvSchemaError>>
        /\ calls.completion = 0
        /\ calls.provider = 0
        /\ calls.sql = 0
        /\ step = 0
        /\ messages = <<>>

C3_Witness ==
    /\ pc = "done"
    /\ db.file = "missing"
    /\ events = <<EvSchemaError>>

\* C4: no step of process_message raises, whatever the completion handed to
\* the parser.
C4_StepNeverRaises == ~(pc = "raised" /\ step >= 1)

\* C5: every run emits exactly one terminal event, as its last event, and
\* the step-limit event only when it emitted no final answer.
C5_OneTerminalEventLast ==
    /\ CountTerminal <= 1
    /\ (CountTerminal = 1 => pc = "done" /\ Last(events).tag \in TerminalTags)
    /\ (pc \in {"done", "raised"} => CountTerminal = 1)
    /\ (CountTag(TagStepLimit) > 0 => CountTag(TagFinalAnswer) = 0)

\* the conversation without its system messages
Dialogue == SelectSeq(messages, LAMBDA m : m.role /= "system")

\* assistant and user messages alternate, but for repair messages
Alternates(conv) ==
    \A i \in 1..Len(conv) :
        /\ conv[i].role \in {"user", "assistant"}
        /\ (conv[i].role = "assistant" =>
              /\ i > 1 /\ conv[i - 1].role = "user"
              /\ i < Len(conv) /\ conv[i + 1].role = "user")
        /\ (conv[i].role = "user" /\ i > 1 /\ conv[i - 1].role = "user" =>
              conv[i].kind \in {"invalid_json", "unknown_type"})

\* C6 as claimed: the system prompt is the first message and the only
\* system message, and the messages after it alternate between assistant
\* and user, but for repair messages.
C6_OnlySystemPromptThenAlternation ==
    messages /= <<>> =>
        /\ messages[1].kind = "system_prompt"
        /\ \A i \in 2..Len(messages) : messages[i].role /= "system"
        /\ Alternates(SubSeq(messages, 2, Len(messages)))

\* C6 as amended: the system prompt is the first message; every other
\* system message is a retry reminder of get_completion, never next to
\* another system message and at most one per completion call; the messages
\* that are not system messages begin with the user's input and alternate
\* between assistant and user, but for repair messages.
C6_RemindersAsideAlternation ==
    messages /= <<>> =>
        /\ messages[1].kind = "system_prompt"
        /\ messages[2] = MsgUserInput
        /\ \A i \in 2..Len(messages) :
              messages[i].role = "system" =>
                  /\ messages[i] = MsgReminder
                  /\ messages[i - 1].role /= "system"
        /\ CountKind(messages, "reminder") <= calls.completion
        /\ Dialogue[1] = MsgUserInput
        /\ Alternates(Dialogue)

C6_Witness ==
    /\ CountKind(messages, "reminder") > 0
    /\ CountRole(messages, "assistant") > 0
    /\ CountKind(messages, "invalid_json") > 0
    /\ Last(messages).role = "system"

\* C7: for a database path that exists, run_sql and list_tables return and
\* never raise.
C7_DbLayerNeverRaises ==
    /\ (lastTables.called /\ PathExists(lastTables.before)
          => lastTables.out.exc = "none")
    /\ (lastSql.called /\ PathExists(lastSql.before) /\ lastSql.query.py /= "int"
          => lastSql.out.exc = "none")

\* the engine's verdict on the statements of a text, run in order
Verdict(d, sql) == RunScript(d, StatementsOf(sql))

\* C8: when the engine rejects a statement on an existing, openable
\* database, on the SELECT path, the single-statement path or the batch
\* path, run_sql returns {status: error, error: <the engine's message>} and
\* does not raise.
C8_EngineRejectionIsErrorResult ==
    LET sql == Strip(lastSql.query.text)
    IN  (/\ lastSql.called
         /\ lastSql.before.file = "database"
         /\ lastSql.query.py = "str"
         /\ sql /= <<>>
         /\ (~HasSeparator(sql) \/ Lower(FirstWord(sql)) /= <<"select">>)
         /\ Verdict(lastSql.before, sql).err /= "none")
        =>  /\ lastSql.out.exc = "none"
            /\ lastSql.out.result.status = "error"
            /\ lastSql.out.result.keys = {"status", "error"}
            /\ lastSql.out.result.error = Verdict(lastSql.before, sql).err

C8_Witness ==
    /\ lastSql.called
    /\ lastSql.before.file = "database"
    /\ lastSql.query = SqlStr(Q_script_dup)
    /\ lastSql.out.result.error = "UNIQUE constraint failed"

IsOtherFailure(o) == ~o.ok /\ ~IsFormatFailure(o.error)

C10_OneToThreeAttempts ==
    /\ Len(lastCall) <= 3
    /\ calls.provider <= 3 * calls.completion
    /\ \A i \in 1..(Len(lastCall) - 1) : ~lastCall[i].ok
    /\ (pc \in {"parse", "while", "done", "raised"} /\ calls.completion > 0 =>
          /\ Len(lastCall) >= 1
          /\ IF Last(lastCall).ok
             THEN response_text = Last(lastCall).content
             ELSE Len(lastCall) = 3 /\ response_text = EmptyString)
    /\ (pc = "raised" /\ lastCall /= <<>> => Last(lastCall).ok)

C10_Witness ==
    /\ pc = "parse"
    /\ Len(lastCall) = 3
    /\ ~lastCall[1].ok
    /\ ~lastCall[2].ok
    /\ lastCall[3].ok
    /\ response_text = lastCall[3].content

\* ---------------------------------------------------------------------------
\* C11  Within get_completion an attempt appends a message only when it fails
\* with a format-validation failure on the first or second attempt while the
\* last message is not a system message, and then it appends the one reminder;
\* an attempt that succeeds, fails otherwise, is the third, or finds a system
\* message last appends nothing.  The reminder is appended at the first such
\* failure of the call only, so one call appends at most one.
FormatFailuresOf(call) == Count(call, LAMBDA o : ~o.ok /\ IsFormatFailure(o.error))

C11_ReminderOnlyAfterRetriedFormatFailure ==
    [][pc = "create" =>
         LET o == Last(lastCall')
             due == /\ ~o.ok
                    /\ IsFormatFailure(o.error)
                    /\ attempt < 2
                    /\ Last(messages).role /= "system"
         IN  /\ due => messages' = Append(messages, MsgReminder)
             /\ ~due => messages' = messages
             /\ messages' /= messages => FormatFailuresOf(lastCall) = 0]_vars

\* a call whose first two attempts failed format validation appended one
\* reminder, after the user message that was last when the call began
C11_Witness ==
    /\ pc = "create"
    /\ attempt = 2
    /\ FormatFailuresOf(lastCall) = 2
    /\ Last(messages) = MsgReminder
    /\ messages[Len(messages) - 1].role = "user"

\* ---------------------------------------------------------------------------
\* C12  A "sql" step whose execution returns ok with n rows emits
\* 'SQL Result (n rows)' with the true n and appends as feedback: for n > 10
\* the preview message holding n and the first 10 rows in result order; for
\* n <= 10 (n = 10 and n = 0 too) the plain message holding n and all n rows.
C12_PreviewOfTenAndTrueTotal ==
    [][(/\ pc = "parse"
        /\ response_text.type = "sql"
        /\ lastSql'.out.exc = "none"
        /\ lastSql'.out.result.status = "ok") =>
         LET result == lastSql'.out.result
             rows == IF "rows" \in result.keys THEN result.rows ELSE <<>>
             n == Len(rows)
             fed == Last(messages')
         IN  /\ Last(events') = EvSqlResult(n)
             /\ fed.role = "user"
             /\ fed.n = n
             /\ n > 10 => fed.kind = "preview" /\ fed.rows = SubSeq(rows, 1, 10)
             /\ n <= 10 => fed.kind = "result" /\ fed.rows = rows]_vars

\* a query of a table of 11 rows was fed back as a preview of 10 rows that
\* names the total 11, as does the event
C12_Witness ==
    /\ pc = "while"
    /\ lastSql.called
    /\ lastSql.out.result.status = "ok"
    /\ Len(lastSql.out.result.rows) = 11
    /\ Last(messages).kind = "preview"
    /\ Last(messages).n = 11
    /\ Len(Last(messages).rows) = 10
    /\ Last(events) = EvSqlResult(11)

\* the boundary cases: ten rows and no row are fed back whole
C12_TenRowsWhole ==
    /\ pc = "while"
    /\ lastSql.called
    /\ Len(lastSql.out.result.rows) = 10
    /\ Last(messages).kind = "result"
    /\ Len(Last(messages).rows) = 10

C12_NoRowWhole ==
    /\ pc = "while"
    /\ lastSql.called
    /\ lastSql.out.result.status = "ok"
    /\ "rows" \in lastSql.out.result.keys
    /\ Len(lastSql.out.result.rows) = 0
    /\ Last(messages) = MsgResult(0, <<>>)

\* ---------------------------------------------------------------------------
\* C13  Every step whose decision has type "sql" calls run_sql exactly once
\* and appends exactly two messages: the assistant message holding the raw
\* completion text of the step, then a user message holding the result
\* feedback or the SQL error; no step of another kind calls run_sql.
IsSqlDecision ==
    /\ pc = "parse"
    /\ response_text.py = "str"
    /\ response_text.json = "object"
    /\ response_text.type = "sql"

C13_SqlStepAppendsPairAndRunsOnce ==
    [][IF IsSqlDecision
       THEN /\ calls'.sql = calls.sql + 1
            /\ Len(messages') = Len(messages) + 2
            /\ SubSeq(messages', 1, Len(messages)) = messages
            /\ messages'[Len(messages) + 1] = MsgAssistant(response_text)
            /\ messages'[Len(messages) + 2].role = "user"
            /\ messages'[Len(messages) + 2].kind \in {"result", "preview", "sql_error"}
       ELSE calls'.sql = calls.sql]_vars

\* ---------------------------------------------------------------------------
\* C14  A SQL error does not end the run: the step that got it appends the
\* error text as the last message and returns to the loop; from there, while
\* fewer than 10 steps are taken, the next step requests a completion over
\* that conversation, and after the 10th the step limit is the one event
\* left.  A finished run whose every step yielded a SQL error took 10 steps
\* and ended with the step-limit event after 10 'SQL Error' events.
TagSqlError == "SQL Error"

FedSqlError == Last(messages).kind = "sql_error" /\ Last(messages).error /= ""

C14_SqlErrorGoesOn ==
    /\ [](pc \in {"done", "raised"} /\ step >= 1 /\ CountTag(TagSqlError) = step
              => /\ pc = "done"
                 /\ step = 10
                 /\ CountTag(TagSqlError) = 10
                 /\ Last(events) = EvStepLimit
                 /\ CountTerminal = 1)
    /\ [][(/\ IsSqlDecision
           /\ lastSql'.out.exc = "none"
           /\ lastSql'.out.result.status = "error")
            => /\ pc' = "while"
               /\ exc' = "none"
               /\ Last(events') = EvSqlError(lastSql'.out.result.error)
               /\ Last(messages').role = "user"
               /\ Last(messages').kind = "sql_error"
               /\ Last(messages').error = lastSql'.out.result.error
               /\ lastSql'.out.result.error /= ""]_vars
    /\ [][(pc = "while" /\ FedSqlError)
            => /\ messages' = messages
               /\ IF step < 10
                  THEN /\ pc' = "create"
                       /\ step' = step + 1
                       /\ calls'.completion = calls.completion + 1
                       /\ events' = events
                  ELSE /\ pc' = "done"
                       /\ events' = Append(events, EvStepLimit)]_vars

\* ten steps, each with a SQL error, then the step limit
C14_Witness ==
    /\ pc = "done"
    /\ step = 10
    /\ CountTag(TagSqlError) = 10
    /\ CountKind(messages, "sql_error") = 10
    /\ Last(events) = EvStepLimit

\* ---------------------------------------------------------------------------
\* C15  A step whose completion text is not JSON (the "" of a failed
\* completion call too) takes one unit of the budget when it begins, emits
\* nothing and runs no SQL while the completion is requested, and then emits
\* the one event 'Debug: Failed to parse JSON response: <raw text>', appends
\* the one user message asking for valid JSON and no assistant message, runs
\* no SQL and returns to the loop.
NotJsonText == response_text.py = "str" /\ response_text.json = "invalid"

C15_ParseFailureStep ==
    [][/\ (pc = "while" /\ pc' = "create")
            => /\ step' = step + 1
               /\ events' = events
               /\ messages' = messages
               /\ calls'.sql = calls.sql
       /\ pc = "create"
            => /\ step' = step
               /\ events' = events
               /\ calls'.sql = calls.sql
               /\ \/ messages' = messages
                  \/ /\ Len(messages') = Len(messages) + 1
                     /\ SubSeq(messages', 1, Len(messages)) = messages
                     /\ Last(messages').role = "system"
       /\ (pc = "parse" /\ NotJsonText)
            => /\ step' = step
               /\ events' = Append(events,
                     [tag |-> TagParseFailure, text |-> response_text.raw,
                      n |-> 0, sql |-> SqlNone])
               /\ Len(messages') = Len(messages) + 1
               /\ SubSeq(messages', 1, Len(messages)) = messages
               /\ Last(messages').role = "user"
               /\ Last(messages').kind = "invalid_json"
               /\ calls'.sql = calls.sql
               /\ db' = db
               /\ pc' = "while"
               /\ exc' = "none"]_vars

\* the first completion call failed and returned "": the step was a parse
\* failure with one event, one user message, no SQL, one step taken
C15_Witness ==
    /\ pc = "while"
    /\ step = 1
    /\ lastCall /= <<>>
    /\ ~Last(lastCall).ok
    /\ response_text = EmptyString
    /\ events = <<EvParseFailure("")>>
    /\ Last(messages) = MsgInvalidJson
    /\ CountRole(messages, "user") = 2
    /\ CountRole(messages, "assistant") = 0
    /\ calls.sql = 0

\* ---------------------------------------------------------------------------
\* C16  A step whose parsed object has a type that is neither "sql" nor
\* "answer", or no type, emits 'Debug: Unknown response type: <type>' (after
\* the thought, if any), appends the one corrective user message, runs no
\* SQL, takes no further unit of the budget and returns to the loop; only a
\* "sql" decision runs SQL and only an "answer" decision emits a final answer.
TagUnknownType == "Debug: Unknown response type"
TagExecuting == "Executing SQL"

IsParsedObject ==
    /\ pc = "parse"
    /\ response_text.py = "str"
    /\ response_text.json = "object"

C16_UnknownTypeStep ==
    [][/\ (IsParsedObject /\ response_text.type \notin {"sql", "answer"})
            => /\ Last(events') =
                     [tag |-> TagUnknownType, text |-> response_text.type,
                      n |-> 0, sql |-> SqlNone]
               /\ Len(events') \in {Len(events) + 1, Len(events) + 2}
               /\ SubSeq(events', 1, Len(events)) = events
               /\ \A i \in Len(events) + 1 .. Len(events') :
                     events'[i].tag \notin {TagExecuting, TagFinalAnswer, TagSqlError}
               /\ Len(messages') = Len(messages) + 1
               /\ SubSeq(messages', 1, Len(messages)) = messages
               /\ Last(messages').role = "user"
               /\ Last(messages').kind = "unknown_type"
               /\ calls' = calls
               /\ db' = db
               /\ step' = step
               /\ pc' = "while"
               /\ exc' = "none"
       /\ calls'.sql /= calls.sql
            => IsParsedObject /\ response_text.type = "sql"
       /\ (Len(events') > Len(events) /\ Last(events').tag = TagFinalAnswer)
            => IsParsedObject /\ response_text.type = "answer"]_vars

\* a decision without a type was answered with the debug event and the
\* corrective message, and the run goes on
C16_Witness ==
    /\ pc = "while"
    /\ step = 1
    /\ response_text = R_notype
    /\ Last(events) = EvUnknownType(Missing)
    /\ Last(messages) = MsgUnknownType
    /\ calls.sql = 0

\* the same for a type that is a word other than the two
C16_ChartType ==
    /\ pc = "while"
    /\ response_text = R_chart
    /\ Last(events) = EvUnknownType("chart")
    /\ Last(messages) = MsgUnknownType

\* ---------------------------------------------------------------------------
\* C17  (as claimed) Every user message that answers a parsed decision, be it
\* result feedback, SQL error text or the unknown-type repair instruction,
\* comes immediately after an assistant message.
AnswersSql(m) == m.role = "user" /\ m.kind \in {"result", "preview", "sql_error"}
AnswersUnknownType(m) == m.role = "user" /\ m.kind = "unknown_type"

C17_EveryAnswerFollowsAssistant ==
    \A i \in 1..Len(messages) :
        (AnswersSql(messages[i]) \/ AnswersUnknownType(messages[i]))
            => i > 1 /\ messages[i - 1].role = "assistant"

\* C17  (amended) Every user message that answers a "sql" decision, result
\* feedback or SQL error text, comes immediately after the assistant message
\* holding the raw JSON of a "sql" decision, and every assistant message is
\* followed by such an answer; the unknown-type repair instruction, like the
\* invalid-JSON one, never comes after an assistant message.
C17_SqlAnswersFollowAssistant ==
    /\ \A i \in 1..Len(messages) :
          AnswersSql(messages[i])
              => /\ i > 1
                 /\ messages[i - 1].role = "assistant"
                 /\ messages[i - 1].text.json = "object"
                 /\ messages[i - 1].text.type = "sql"
    /\ \A i \in 1..Len(messages) :
          messages[i].role = "assistant"
              => i < Len(messages) /\ AnswersSql(messages[i + 1])
    /\ \A i \in 1..Len(messages) :
          (AnswersUnknownType(messages[i]) \/ messages[i].kind = "invalid_json")
              => i > 1 /\ messages[i - 1].role /= "assistant"

\* a conversation with a result answered after its assistant message and,
\* right after it, an unknown-type repair with no assistant message before it
C17_Witness ==
    \E i \in 2..Len(messages) - 1 :
        /\ AnswersSql(messages[i])
        /\ messages[i - 1] = MsgAssistant(R_select)
        /\ AnswersUnknownType(messages[i + 1])

\* ---------------------------------------------------------------------------
\* C18  In a run of the agent, whose database exists and opens, run_sql on a
\* statement that is empty after trimming (the empty text, blanks only, or a
\* missing sql field) returns the error result 'Empty SQL query', commits
\* nothing and leaves the database as it was; the step emits
\* 'SQL Error: Empty SQL query' and feeds the same text back.
EmptyAfterTrim(q) ==
    \/ q.py = "none"
    \/ q.py = "str" /\ \A i \in 1..Len(q.text) : q.text[i] = " "

EmptySqlText == "Empty SQL query"

C18_EmptySqlIsErrorResult ==
    /\ [](lastSql.called /\ EmptyAfterTrim(lastSql.query)
              => /\ lastSql.out.exc = "none"
                 /\ lastSql.out.result.status = "error"
                 /\ lastSql.out.result.error = EmptySqlText
                 /\ lastSql.out.result.keys = {"status", "error"}
                 /\ lastSql.out.commits = 0
                 /\ lastSql.out.db = lastSql.before
                 /\ db = lastSql.before)
    /\ [][(IsSqlDecision /\ EmptyAfterTrim(response_text.sql))
            => /\ lastSql'.called
               /\ lastSql'.query = response_text.sql
               /\ lastSql'.before = db
               /\ Last(events') =
                     [tag |-> TagSqlError, text |-> EmptySqlText, n |-> 0,
                      sql |-> SqlNone]
               /\ Last(messages').role = "user"
               /\ Last(messages').kind = "sql_error"
               /\ Last(messages').error = EmptySqlText
               /\ pc' = "while"]_vars

\* a decision without a sql field was answered with the empty-query error
C18_Witness ==
    /\ pc = "while"
    /\ lastSql.called
    /\ lastSql.query = SqlNone
    /\ response_text = R_sqlmissing
    /\ lastSql.out.result = ResError(EmptySqlText)
    /\ Last(events) = EvSqlError(EmptySqlText)
    /\ Last(messages) = MsgSqlError(EmptySqlText)

\* the same for a sql field of blanks only
C18_BlankSql ==
    /\ pc = "while"
    /\ lastSql.called
    /\ lastSql.query = SqlStr(<<" ", " ">>)
    /\ lastSql.out.result = ResError(EmptySqlText)
    /\ lastSql.out.commits = 0
    /\ Last(messages) = MsgSqlError(EmptySqlText)

\* ---------------------------------------------------------------------------
\* C19  run_sql on a statement that is not empty, on a database that opens,
\* takes its path by the first blank-delimited word of the trimmed text,
\* whatever its case: for SELECT the read path (an ok result has columns and
\* rows and no rows_affected, nothing is committed, the database is as
\* before); for any other word the mutation path (an ok result has
\* rows_affected and neither rows nor columns, and one commit was issued).
\* A call commits at most once and commits nothing when it returns an error.
FirstWordIsSelect(q) ==
    LET first == FirstWord(RStrip(LStrip(q.text)))
    IN  /\ Len(first) = 1
        /\ first[1] \in {"SELECT", "Select", "select"}

Dispatched(c) ==
    /\ c.called
    /\ c.before.file \in {"database", "garbage"}
    /\ c.query.py = "str"
    /\ ~EmptyAfterTrim(c.query)

C19_DispatchOnFirstWord ==
    Dispatched(lastSql) =>
        LET out == lastSql.out
        IN  /\ out.exc = "none"
            /\ out.commits \in {0, 1}
            /\ out.result.status = "error" => out.commits = 0
            /\ (out.result.status = "ok" /\ FirstWordIsSelect(lastSql.query))
                  => /\ out.result.keys = {"status", "columns", "rows"}
                     /\ out.commits = 0
                     /\ out.db = lastSql.before
            /\ (out.result.status = "ok" /\ ~FirstWordIsSelect(lastSql.query))
                  => /\ "rows_affected" \in out.result.keys
                     /\ "rows" \notin out.result.keys
                     /\ "columns" \notin out.result.keys
                     /\ out.commits = 1
            /\ FirstWordIsSelect(lastSql.query) => out.db = lastSql.before

\* a statement that begins with SELECT in upper case took the read path
C19_Witness ==
    /\ lastSql.called
    /\ lastSql.query = SqlStr(Q_select)
    /\ Head(Q_select) = "SELECT"
    /\ lastSql.out.result.status = "ok"
    /\ lastSql.out.result.rows /= <<>>
    /\ lastSql.out.commits = 0

\* a statement that begins with another word took the mutation path
C19_MutationPath ==
    /\ lastSql.called
    /\ lastSql.query = SqlStr(Q_insert)
    /\ lastSql.out.result.status = "ok"
    /\ lastSql.out.result.keys = {"status", "rows_affected", "lastrowid"}
    /\ lastSql.out.commits = 1
    /\ lastSql.out.db /= lastSql.before

\* ---------------------------------------------------------------------------
\* C20  For every SELECT that run_sql executes successfully, one with two
\* columns of the same name included, every row mapping of the ok result has
\* as many keys as columns has entries, and its keys are the entries of
\* columns.
C20_ColumnsMatchRowKeys ==
    (/\ lastSql.called
     /\ lastSql.out.exc = "none"
     /\ lastSql.out.result.status = "ok"
     /\ "rows" \in lastSql.out.result.keys)
    => LET columns == lastSql.out.result.columns
           rows == lastSql.out.result.rows
       IN  \A i \in 1..Len(rows) :
               /\ Cardinality(DOMAIN rows[i]) = Len(columns)
               /\ DOMAIN rows[i] = {columns[j] : j \in 1..Len(columns)}

\* ---------------------------------------------------------------------------
\* C21  On the mutation path of run_sql, on a database that opens: a text
\* that contains ';' runs as a batch and its ok result has rows_affected and
\* no lastrowid; a text without ';' runs as one statement and its ok result
\* has rows_affected and lastrowid.  The result is ok exactly when the engine
\* accepted every statement, the database is then what the statements made
\* of it, and commit was called exactly once; when the engine rejected a
\* statement commit was not called.
ContainsSemicolon(q) == \E i \in 1..Len(q.text) : q.text[i] = ";"

C21_SingleStatement ==
    /\ lastSql.called
    /\ lastSql.query = SqlStr(Q_insert)
    /\ lastSql.out.result.status = "ok"
    /\ lastSql.out.result.lastrowid = Len(lastSql.before.rows) + 1
    /\ lastSql.out.result.rows_affected = 1
    /\ lastSql.out.commits = 1

\* ---------------------------------------------------------------------------
\* C22  For every database with at least one user table, list_tables returns
\* one entry per table or view that is not an internal catalog object (a name
\* that begins with "sqlite_"), and nothing else, ordered by type and then by
\* name.
HasUserTable(d) == \E o \in UserVisible(d) : o.type = "table"

C22_OneEntryPerUserObject ==
    (/\ lastTables.called
     /\ lastTables.before.file = "database"
     /\ HasUserTable(lastTables.before))
    => LET want == OrderBy(UserVisible(lastTables.before))
           got == lastTables.out.value
       IN  /\ lastTables.out.exc = "none"
           /\ got.kind = "list"
           /\ Len(got.items) = Len(want)
           /\ \A i \in 1..Len(want) : got.items[i].table_name = want[i].name

\* ---------------------------------------------------------------------------
\* C23  A call of run_sql or list_tables opens at most one connection and
\* has closed it when it returns or raises, on every exit path: a call on a
\* path that does not exist or cannot be opened opens none, every other call
\* opens one and closes it.  A statement that was not committed leaves
\* nothing behind for the next call: the database is as before the call.
Opens(d) == IF d.file \in {"database", "garbage"} THEN 1 ELSE 0

C23_ConnectionClosedOnEveryExit ==
    /\ lastSql.called
         => /\ lastSql.out.opened = Opens(lastSql.before)
            /\ lastSql.out.closed = lastSql.out.opened
            /\ (lastSql.out.commits = 0 /\ ~ContainsSemicolon(lastSql.query))
                  => lastSql.out.db = lastSql.before
            /\ db.file = lastSql.before.file
    /\ lastTables.called
         => /\ lastTables.out.opened = Opens(lastTables.before)
            /\ lastTables.out.closed = lastTables.out.opened

\* a call of run_sql that raised after it had opened its connection closed it
C23_Witness ==
    /\ lastSql.called
    /\ lastSql.out.exc = "AttributeError"
    /\ lastSql.out.opened = 1
    /\ lastSql.out.closed = 1
    /\ lastTables.called
    /\ lastTables.out.exc = "none"
    /\ lastTables.out.closed = 1

\* ---------------------------------------------------------------------------
\* C24  A run reads the schema exactly once, before its first step; from then
\* on the first message is the system prompt with the schema text read then,
\* and no step changes it, not even a "sql" step that drops the table the
\* schema describes.
C24_SchemaReadOnceAndFrozen ==
    /\ [](/\ calls.tables = (IF pc = "start" THEN 0 ELSE 1)
          /\ pc = "start" => step = 0 /\ messages = <<>>
          /\ messages /= <<>>
               => /\ lastTables.called
                  /\ messages[1].role = "system"
                  /\ messages[1].kind = "system_prompt"
                  /\ messages[1].schema = get_schema_context(lastTables.before).text
                  /\ messages[1].schema /= <<>>)
    /\ [][messages /= <<>>
            => /\ messages' /= <<>>
               /\ messages'[1] = messages[1]
               /\ lastTables' = lastTables]_vars

\* the table was dropped during the run; the system prompt still describes it
C24_Witness ==
    /\ pc = "while"
    /\ step >= 2
    /\ response_text = R_drop
    /\ HasTable_t(lastTables.before)
    /\ ~HasTable_t(db)
    /\ get_schema_context(db).text /= messages[1].schema
    /\ messages[1] = MsgSystemPrompt(get_schema_context(lastTables.before).text)

\* ---------------------------------------------------------------------------
\* C25  Two runs on the one agent, one after the other or interleaved step by
\* step, have each their own conversation and their own step counter: the
\* conversation of a run holds the input of that run and of no other; holds
\* one feedback or repair user message per step that run has finished, and
\* at most one reminder per step that run has begun; a run that ends at the
\* step limit has taken 10 steps of its own.  A step of one run leaves the
\* other run's frame as it is, and appends to its own conversation only.
IsFeedback(m) == m.role = "user" /\ m.kind /= "user_input"

StepsFinished(f) == IF f.pc \in {"create", "parse"} THEN f.step - 1 ELSE f.step

FrameIsItsOwn(f) ==
    /\ f.step \in 0..10
    /\ f.pc = "start" => f.messages = <<>> /\ f.step = 0 /\ f.events = <<>>
    /\ f.messages /= <<>>
         => /\ Len(f.messages) >= 2
            /\ f.messages[2] = MsgUserInputOf(f.id)
            /\ \A i \in 1..Len(f.messages) :
                  f.messages[i].kind = "user_input" => i = 2
    /\ f.pc \in {"while", "create", "parse"}
         => Count(f.messages, IsFeedback) = StepsFinished(f)
    /\ Count(f.messages, LAMBDA m : m.kind = "reminder") <= f.step
    /\ (f.pc = "done" /\ f.events /= <<>> /\ Last(f.events) = EvStepLimit)
         => f.step = 10 /\ Count(f.messages, IsFeedback) = 10

C25_RunsAreIsolated ==
    /\ [](FrameIsItsOwn(CurrentFrame) /\ FrameIsItsOwn(suspended))
    /\ [][\/ /\ suspended' = suspended
              /\ \/ messages = <<>>
                 \/ /\ Len(messages') >= Len(messages)
                    /\ SubSeq(messages', 1, Len(messages)) = messages
              /\ step' \in {step, step + 1}
           \/ /\ suspended' = CurrentFrame
              /\ CurrentFrame' = suspended]_vars

\* two runs under way: one has had two steps of format failures and holds
\* two reminders, the other has had three steps of queries and holds none
C25_Witness ==
    /\ CurrentRun = 1
    /\ pc = "while"
    /\ step = 3
    /\ defReply = Returned(R_select)
    /\ CountRole(messages, "assistant") = 3
    /\ CountKind(messages, "reminder") = 0
    /\ suspended.pc = "while"
    /\ suspended.step = 2
    /\ suspended.defReply = Failed(E_format)
    /\ Count(suspended.messages, LAMBDA m : m.kind = "reminder") = 2
    /\ Count(suspended.messages, LAMBDA m : m.role = "assistant") = 0
    /\ suspended.messages[2] = MsgUserInputOf(2)
    /\ messages[2] = MsgUserInputOf(1)

\* both runs came to the step limit, each after 10 steps of its own
C25_BothUseTheirBudget ==
    /\ pc = "done"
    /\ step = 10
    /\ Last(events) = EvStepLimit
    /\ suspended.pc = "done"
    /\ suspended.step = 10
    /\ Last(suspended.events) = EvStepLimit
    /\ calls.completion = 20

\* ---------------------------------------------------------------------------
\* C26  In the command-line loop, when the agent's answer is printed for a
\* question, at whatever step, the line 'Agent reached maximum steps without
\* a final answer.' is not printed for that question.
TagCliAnswer == "Agent"
TagCliStepLimit == "Agent reached maximum steps without a final answer."

C26_NoStepLimitLineAfterAnswer ==
    CountTag(TagCliAnswer) >= 1 => CountTag(TagCliStepLimit) = 0

\* ---------------------------------------------------------------------------
\* C27  Every run comes to its end, and at every moment of it: the step
\* counter is between 0 and 10; get_completion was called once per step;
\* run_sql was called at most once per step; the provider was tried at most
\* 3 times per step, 30 times in all; the conversation holds at most
\* 2 + 3 x step messages, and every step of the run keeps the messages it
\* had and only appends.
C27_BoundedRunThatEnds ==
    /\ <>(pc \in {"done", "raised"})
    /\ [](/\ step \in 0..10
          /\ calls.completion = step
          /\ calls.sql <= step
          /\ calls.provider <= 3 * step
          /\ calls.provider <= 30
          /\ Len(messages) <= 2 + 3 * step)
    /\ [][/\ Len(messages') >= Len(messages)
          /\ SubSeq(messages', 1, Len(messages)) = messages
          /\ step' \in {step, step + 1}]_vars

\* a run of 10 steps of 3 failed attempts each has ended
C27_Witness ==
    /\ pc = "done"
    /\ step = 10
    /\ calls.completion = 10
    /\ calls.provider = 30
    /\ Len(messages) >= 12

\* the bound on the conversation is met: a reminder and the pair of a query
\* in the first step
C27_ThreeMessagesInAStep ==
    /\ step = 1
    /\ pc = "while"
    /\ Len(messages) = 5

\* ---------------------------------------------------------------------------
\* C28  Inside one step: the 'Thought' event of a decision with a non-empty
\* thought is the first event of the step and its only 'Thought' event; a
\* "sql" decision then emits 'Executing SQL' with the query, calls run_sql
\* once with that query, and emits exactly one of 'SQL Result' and
\* 'SQL Error' after it.  The thought does not steer the step: where the
\* step goes, what it calls and what it appends do not depend on it.
TagThought == "Thought"
TagSqlResult == "SQL Result"

HasThought == response_text.thought \notin {Missing, ""}

\* the events a step added
StepEvents == SubSeq(events', Len(events) + 1, Len(events'))

\* the same without the leading 'Thought' event of a decision that has one
AfterThought == IF HasThought THEN Tail(StepEvents) ELSE StepEvents

C28_EventOrderInAStep ==
    [][IsParsedObject
         => /\ SubSeq(events', 1, Len(events)) = events
            /\ HasThought
                  => /\ StepEvents /= <<>>
                     /\ Head(StepEvents) = EvThought(response_text.thought)
            /\ \A i \in 1..Len(AfterThought) : AfterThought[i].tag /= TagThought
            /\ response_text.type = "sql"
                  => /\ Len(AfterThought) = 2
                     /\ AfterThought[1] = EvExecuting(response_text.sql)
                     /\ AfterThought[2].tag \in {TagSqlResult, TagSqlError}
                     /\ calls'.sql = calls.sql + 1
                     /\ lastSql'.query = response_text.sql
                     /\ pc' = "while"
            /\ response_text.type /= "sql"
                  => /\ Len(AfterThought) = 1
                     /\ calls' = calls
                     /\ pc' = IF response_text.type = "answer" THEN "done" ELSE "while"]_vars

\* the same for the steps in which run_sql returns
C28_EventOrderWhereSqlReturns ==
    [][IsParsedObject /\ pc' /= "raised"
         => /\ SubSeq(events', 1, Len(events)) = events
            /\ HasThought
                  => /\ StepEvents /= <<>>
                     /\ Head(StepEvents) = EvThought(response_text.thought)
            /\ \A i \in 1..Len(AfterThought) : AfterThought[i].tag /= TagThought
            /\ response_text.type = "sql"
                  => /\ Len(AfterThought) = 2
                     /\ AfterThought[1] = EvExecuting(response_text.sql)
                     /\ AfterThought[2].tag \in {TagSqlResult, TagSqlError}
                     /\ calls'.sql = calls.sql + 1
                     /\ lastSql'.query = response_text.sql
                     /\ pc' = "while"
            /\ response_text.type /= "sql"
                  => /\ Len(AfterThought) = 1
                     /\ calls' = calls
                     /\ pc' = IF response_text.type = "answer" THEN "done" ELSE "while"]_vars

\* ---------------------------------------------------------------------------
\* C29  Whenever the loop is about to call get_completion, and until the
\* first failure of that call, the last message of the conversation has the
\* user role.  Hence the first format failure of a call that is retried
\* (it came on the first or the second attempt) appends the reminder, and
\* a later one of the same call appends nothing; the conversation never
\* holds more reminders than steps were begun.
CallNotYetFailed ==
    \/ pc = "while"
    \/ pc = "create" /\ FormatFailuresOf(lastCall) = 0

\* the attempt of this step failed with a format failure that is retried
RetriedFormatFailureNow ==
    /\ pc = "create"
    /\ Len(lastCall') = Len(lastCall) + 1
    /\ ~Last(lastCall').ok
    /\ IsFormatFailure(Last(lastCall').error)
    /\ attempt < 2

C29_UserLastAtEveryCompletionCall ==
    /\ [](CallNotYetFailed => messages /= <<>> /\ Last(messages).role = "user")
    /\ [](CountKind(messages, "reminder") <= step)
    /\ [][RetriedFormatFailureNow
            => messages' = IF FormatFailuresOf(lastCall) = 0
                           THEN Append(messages, MsgReminder)
                           ELSE messages]_vars

\* a finished run in which every one of the 10 steps left its reminder
C29_Witness ==
    /\ pc = "done"
    /\ step = 10
    /\ CountKind(messages, "reminder") = 10

\* a reminder is appended in a step that is not the first, after a failure
\* that was not a format failure
C29_ReminderInLaterStep ==
    /\ pc = "create"
    /\ step = 2
    /\ attempt = 2
    /\ Len(lastCall) = 2
    /\ ~IsFormatFailure(lastCall[1].error)
    /\ IsFormatFailure(lastCall[2].error)
    /\ Last(messages) = MsgReminder
    /\ CountKind(messages, "reminder") = 2

\* ---------------------------------------------------------------------------
\* C30  A step whose "sql" decision holds a statement that does not begin
\* with SELECT and that run_sql carries out (status "ok") emits
\* 'SQL Result (0 rows)' and appends, after the assistant message, the
\* feedback 'Query returned 0 rows' with an empty list of rows, whatever the
\* rows_affected and lastrowid of the result are: neither value is in an
\* event or in a message.
MutationSucceeds ==
    /\ IsSqlDecision
    /\ response_text.sql.py = "str"
    /\ ~EmptyAfterTrim(response_text.sql)
    /\ ~FirstWordIsSelect(response_text.sql)
    /\ lastSql'.out.exc = "none"
    /\ lastSql'.out.result.status = "ok"

C30_MutationFeedsBackNoRows ==
    [][MutationSucceeds
         => /\ lastSql'.query = response_text.sql
            /\ lastSql'.out.result.keys \subseteq {"status", "rows_affected", "lastrowid"}
            /\ Last(events') = EvSqlResult(0)
            /\ messages' = messages \o
                  <<MsgAssistant(response_text), MsgResult(0, <<>>)>>
            /\ pc' = "while"]_vars

\* an INSERT that changed a row and reported its rowid was fed back as 0 rows
C30_Witness ==
    /\ pc = "while"
    /\ step >= 1
    /\ lastSql.called
    /\ lastSql.query = SqlStr(Q_insert)
    /\ lastSql.out.result.status = "ok"
    /\ lastSql.out.result.rows_affected = 1
    /\ lastSql.out.result.lastrowid >= 1
    /\ Last(events) = EvSqlResult(0)
    /\ Last(messages) = MsgResult(0, <<>>)

\* a WITH ... SELECT over a table that has rows was fed back as 0 rows
C30_WithQuery ==
    /\ pc = "while"
    /\ lastSql.called
    /\ lastSql.query = SqlStr(Q_with)
    /\ lastSql.before.rows /= <<>>
    /\ lastSql.out.result.status = "ok"
    /\ Last(events) = EvSqlResult(0)
    /\ Last(messages) = MsgResult(0, <<>>)

\* a script of two INSERTs was fed back as 0 rows
C30_Script ==
    /\ pc = "while"
    /\ lastSql.called
    /\ lastSql.query = SqlStr(Q_script)
    /\ lastSql.out.result.status = "ok"
    /\ Len(lastSql.out.db.rows) = Len(lastSql.before.rows) + 2
    /\ Last(events) = EvSqlResult(0)
    /\ Last(messages) = MsgResult(0, <<>>)

\* ---------------------------------------------------------------------------
\* C31  Whenever run_sql returns an error result, the database holds what
\* it held before the call: a single statement that failed changed nothing,
\* and of a batch in which a later statement failed no statement is applied.
ReturnedError(c) ==
    /\ c.called
    /\ c.out.exc = "none"
    /\ c.out.result.status = "error"

C31_ErrorLeavesDatabaseAsItWas ==
    /\ ReturnedError(lastSql) => lastSql.out.db = lastSql.before
    /\ ReturnedError(lastSql) => db = lastSql.before

\* the same for the texts that hold no statement separator
C31_FailedStatementLeavesNoChange ==
    ReturnedError(lastSql) /\ ~ContainsSemicolon(lastSql.query)
        => /\ lastSql.out.db = lastSql.before
           /\ db = lastSql.before
====
